---- MODULE Spec2Model ----
(***************************************************************************)
(* Prompt Poet: the part/token data model of prompt_poet/prompt.py and the *)
(* priority-block truncation engine of Prompt.truncate.                    *)
(*                                                                         *)
(* Conventions of this model                                               *)
(*   - A Python Optional is a sequence of length 0 or 1: None is <<>> and  *)
(*     a present value v is <<v>>.                                         *)
(*   - A str is a sequence of one-character strings; a list[int] of token  *)
(*     ids is a sequence of integers.                                      *)
(*   - Python list indices are 0-based, the sequences here are 1-based:    *)
(*     a TruncationBlock's left/right are the Python values plus one.      *)
(*   - Every public method is one action; it records which method ran and  *)
(*     how it ended ("ok" or the exception class) in the history variable  *)
(*     `last`.                                                             *)
(***************************************************************************)
EXTENDS Integers, Sequences, FiniteSets, TLC

VARIABLES
    parts,                      \* Prompt._parts
    parts_bak,                  \* Prompt._parts_bak (Optional)
    bak_shared,                 \* whether a live part is the same object as a part of the backup
    total_tokens,               \* Prompt._total_tokens
    cached_tokens,              \* Prompt._cached_tokens (Optional)
    cached_pretruncation_tokens,\* Prompt._cached_pretruncation_tokens (Optional)
    token_limit,                \* Prompt._token_limit
    truncation_step,            \* Prompt._truncation_step
    last,                       \* history: the last call and how it ended
    template_data,              \* the keys of Prompt._template_data
    rendered_template           \* Prompt._rendered_template (Optional; the text is left out)

\* What __init__ keeps of the construction.
ctor_vars == <<template_data, rendered_template>>

\* The module state of tokenizer.py and the threads inside
\* get_default_tokenizer.
VARIABLES
    TOKENIZER,                  \* tokenizer._TOKENIZER (Optional)
    tokenizer_lock,             \* tokenizer._tokenizer_lock: its holder, 0 when free
    tokenizer_pc,               \* where each thread is in get_default_tokenizer
    tokenizer_ret,              \* what the last call of each thread returned
    heather_calls,              \* history: how often heather() has run
    chartok_installed           \* whether chartok 0.4.3 is installed

tokenizer_vars == <<TOKENIZER, tokenizer_lock, tokenizer_pc, tokenizer_ret,
                    heather_calls, chartok_installed>>

\* The singleton TemplateRegistry and the threads inside
\* TemplateRegistry(...).get_template(...).
VARIABLES
    registry_initialized,       \* TemplateRegistry._instance._initialized
    registry_cache,             \* TemplateRegistry._cache: its live entries, oldest first
    registry_max,               \* the maxsize of _cache
    registry_pc,                \* where each thread is in the lookup
    registry_args,              \* the arguments of each thread's lookup
    registry_local,             \* its load_from_disk and the template it loaded
    registry_ret,               \* how the last lookup of each thread ended
    compiles                    \* history: how often _load_template has run

registry_vars == <<registry_initialized, registry_cache, registry_max, registry_pc,
                   registry_args, registry_local, registry_ret, compiles>>

\* A string on its way through Prompt._escape_special_characters and
\* Prompt._unescape_special_characters.
VARIABLES
    escape_string,              \* the string the first call was given
    escape_value,               \* what the last call returned
    escape_calls                \* history: the calls made, in order

escape_vars == <<escape_string, escape_value, escape_calls>>

prompt_vars == <<parts, parts_bak, bak_shared, total_tokens, cached_tokens,
                 cached_pretruncation_tokens, token_limit, truncation_step, last>>

\* What the methods of a constructed Prompt leave alone.
\* A call of examples.cai_helpers.pretruncate_messages.
VARIABLES
    messages,                   \* its variable `messages`, in the end what it returns
    messages_arg,               \* the list it was called with
    messages_token_limit,       \* the token_limit it was called with
    messages_pc                 \* where the call is

messages_vars == <<messages, messages_arg, messages_token_limit, messages_pc>>

\* TemplateRegistry.get_template called from one thread, with the cache keys
\* as the strings _build_cache_key makes.
VARIABLES
    keys_cache,                 \* TemplateRegistry._cache: its live entries
    keys_calls                  \* history: the lookups made, in order

keys_vars == <<keys_cache, keys_calls>>

more_vars == <<messages_vars, keys_vars>>

outside == <<ctor_vars, tokenizer_vars, registry_vars, escape_vars, more_vars>>

vars == <<prompt_vars, outside>>

(***************************************************************************)
(* Bounds of the model.                                                    *)
(***************************************************************************)
MaxParts == 2
MaxPriority == 2
MaxLimit == 3
MaxStep == 2
\* The running total is followed while it is within MaxDrift of the range of
\* the sums of token counts a document can have.
MaxDrift == 1
\* The longest content a record is rendered with and the longest content an
\* edit may leave, in characters.
MaxLen == 2
MaxContent == 3
\* The threads of the process.
MaxThreads == 3
\* The largest cache_max_size a registry is made with, and the number of
\* templates compiled in one run.
MaxCacheSize == 2
MaxCompiles == 3
MaxEscapeLen == 3
MaxEscapeCalls == 2
\* The longest document and the largest limit of the removal runs.
MaxBlockParts == 4
MaxBlockLimit == 6
MaxMessages == 5
MaxTokenLimit == 25
MaxKeyCalls == 2

(***************************************************************************)
(* Program constants.                                                      *)
(***************************************************************************)
DEFAULT_TRUNCATION_STEP == 1000
CACHE_MAX_SIZE == 100

None == <<>>
Some(v) == <<v>>
IsNone(o) == o = <<>>
Val(o) == o[1]

\* Python truthiness of an Optional list: None and [] are both falsy.
Truthy(o) == o # <<>> /\ Len(o[1]) > 0

Max(a, b) == IF a >= b THEN a ELSE b
Min(a, b) == IF a <= b THEN a ELSE b

(***************************************************************************)
(* Tokenizer adapter: AbstractTokenizer.tokenize, a deterministic map from *)
(* text to token ids.  The model's tokenizer is character level.           *)
(***************************************************************************)
TokenId(c) == IF c = "a" THEN 1 ELSE 2

Tokenize(content) == [i \in 1..Len(content) |-> TokenId(content[i])]

(***************************************************************************)
(* PromptPart and the sums and concatenations over a part list.            *)
(***************************************************************************)
PromptPart(name, content, tokens, priority) ==
    [name |-> name, content |-> content, role |-> "user",
     tokens |-> tokens, truncation_priority |-> priority]

NumTokens(p) == Len(Val(p.tokens))

AllTokenized(ps) == \A i \in 1..Len(ps) : ~IsNone(ps[i].tokens)

RECURSIVE ConcatTokens(_)
ConcatTokens(ps) ==
    IF ps = <<>> THEN <<>> ELSE Val(Head(ps).tokens) \o ConcatTokens(Tail(ps))

RECURSIVE SumTokens(_)
SumTokens(ps) ==
    IF ps = <<>> THEN 0
    ELSE (IF IsNone(Head(ps).tokens) THEN 0 ELSE NumTokens(Head(ps))) + SumTokens(Tail(ps))

\* Prompt.pretruncation_parts
PretruncationParts_BackupOnly(ps, bak) == IF Truthy(bak) THEN Val(bak) ELSE <<>>

PretruncationParts(ps, bak) == IF Truthy(bak) THEN Val(bak) ELSE ps

(***************************************************************************)
(* Prompt._build_truncation_blocks                                         *)
(***************************************************************************)
TruncationBlock(left, right, priority, total) ==
    [left |-> left, right |-> right, truncation_priority |-> priority,
     total_tokens |-> total]

\* A scan that does not start the token count of a new block afresh, for C36
\* to tell from the code's.
RECURSIVE ScanBlocks_RunningTotal(_, _, _, _, _)
ScanBlocks_RunningTotal(ps, idx, start, prio, total) ==
    IF idx > Len(ps)
    THEN << TruncationBlock(start, Len(ps), prio, total) >>
    ELSE IF ps[idx].truncation_priority = prio
         THEN ScanBlocks_RunningTotal(ps, idx + 1, start, prio, total + NumTokens(ps[idx]))
         ELSE << TruncationBlock(start, idx - 1, prio, total) >>
              \o ScanBlocks_RunningTotal(ps, idx + 1, idx, ps[idx].truncation_priority,
                                         total + NumTokens(ps[idx]))

\* The scan of lines 349-379: idx is the part looked at, start/prio/total the
\* block being accumulated; the last block is appended after the loop.
RECURSIVE ScanBlocks(_, _, _, _, _)
ScanBlocks(ps, idx, start, prio, total) ==
    IF idx > Len(ps)
    THEN << TruncationBlock(start, Len(ps), prio, total) >>
    ELSE IF ps[idx].truncation_priority = prio
         THEN ScanBlocks(ps, idx + 1, start, prio, total + NumTokens(ps[idx]))
         ELSE << TruncationBlock(start, idx - 1, prio, total) >>
              \o ScanBlocks(ps, idx + 1, idx, ps[idx].truncation_priority,
                            NumTokens(ps[idx]))

\* The blocks before the filter (lines 341-379).
UnfilteredBlocks(ps) ==
    IF ps = <<>> THEN <<>>
    ELSE ScanBlocks(ps, 2, 1, ps[1].truncation_priority, NumTokens(ps[1]))

\* A filter that protects priority 0 only, for C4 to tell from the code's.
IsTruncatable_NonZero(block) == block.truncation_priority # 0

\* Line 382-384: only blocks of positive priority are kept.
IsTruncatable(block) == block.truncation_priority > 0

FilterBlocks(blocks) == SelectSeq(blocks, IsTruncatable)

\* The blocks left in the order of the scan, for C27 to tell from the code's.
SortBlocks_Unsorted(blocks) == blocks

\* A descending sort that puts the later of two blocks of equal priority
\* first, for C29 to tell from the code's.
RECURSIVE SortBlocks_LaterFirst(_)
SortBlocks_LaterFirst(blocks) ==
    IF blocks = <<>> THEN <<>>
    ELSE LET top == CHOOSE k \in 1..Len(blocks) :
                      /\ \A j \in 1..Len(blocks) :
                           blocks[j].truncation_priority <= blocks[k].truncation_priority
                      /\ \A j \in (k + 1)..Len(blocks) :
                           blocks[j].truncation_priority < blocks[k].truncation_priority
             rest == [j \in 1..(Len(blocks) - 1) |->
                        IF j < top THEN blocks[j] ELSE blocks[j + 1]]
         IN  << blocks[top] >> \o SortBlocks_LaterFirst(rest)

\* list.sort(key=priority, reverse=True): a stable sort, descending; blocks
\* of equal priority keep their order.
RECURSIVE SortBlocks(_)
SortBlocks(blocks) ==
    IF blocks = <<>> THEN <<>>
    ELSE LET top == CHOOSE k \in 1..Len(blocks) :
                      /\ \A j \in 1..Len(blocks) :
                           blocks[j].truncation_priority <= blocks[k].truncation_priority
                      /\ \A j \in 1..(k - 1) :
                           blocks[j].truncation_priority < blocks[k].truncation_priority
             rest == [j \in 1..(Len(blocks) - 1) |->
                        IF j < top THEN blocks[j] ELSE blocks[j + 1]]
         IN  << blocks[top] >> \o SortBlocks(rest)

BuildTruncationBlocks(ps) == SortBlocks(FilterBlocks(UnfilteredBlocks(ps)))

(***************************************************************************)
(* Prompt._calculate_num_tokens_to_truncate: math.ceil(surplus / step) *   *)
(* step, for surplus >= 0 and step >= 1 (exact in the range modelled).     *)
(***************************************************************************)
CeilDiv(a, b) == (a + b - 1) \div b

CalculateNumTokensToTruncate(total, limit, step) ==
    CeilDiv(Max(0, total - limit), step) * step

(***************************************************************************)
(* Prompt._truncate.  The marking state is the set of marked indices       *)
(* (to_remove) and tokens_removed.                                         *)
(***************************************************************************)
\* A walk that does not stop inside a block, for C28 to tell from the code's.
RemovePartByPart_WholeBlock(ps, i, right, st, need) ==
    [to_remove |-> st.to_remove \cup (i .. right),
     tokens_removed |-> st.tokens_removed + SumTokens(SubSeq(ps, i, right))]

\* Lines 328-332: one part at a time, left to right, until the need is met.
RECURSIVE RemovePartByPart(_, _, _, _, _)
RemovePartByPart(ps, i, right, st, need) ==
    IF i > right THEN st
    ELSE LET st2 == [to_remove |-> st.to_remove \cup {i},
                     tokens_removed |-> st.tokens_removed + NumTokens(ps[i])]
         IN  IF st2.tokens_removed >= need THEN st2
             ELSE RemovePartByPart(ps, i + 1, right, st2, need)

\* Lines 321-332: the whole block if it fits, else part by part.
RemoveBlock(ps, block, st, need) ==
    IF st.tokens_removed + block.total_tokens <= need
    THEN [to_remove |-> st.to_remove \cup (block.left .. block.right),
          tokens_removed |-> st.tokens_removed + block.total_tokens]
    ELSE RemovePartByPart(ps, block.left, block.right, st, need)

\* Lines 319-335: the walk over the ordered blocks.
RECURSIVE WalkBlocks(_, _, _, _, _)
WalkBlocks(ps, blocks, k, st, need) ==
    IF k > Len(blocks) THEN st
    ELSE LET st2 == RemoveBlock(ps, blocks[k], st, need)
         IN  IF st2.tokens_removed >= need THEN st2
             ELSE WalkBlocks(ps, blocks, k + 1, st2, need)

\* The indices _truncate marks for removal.
MarkedForRemoval(ps, blocks, need) ==
    IF need = 0 \/ blocks = <<>> THEN {}
    ELSE WalkBlocks(ps, blocks, 1, [to_remove |-> {}, tokens_removed |-> 0], need).to_remove

\* Line 337: the unmarked parts, in order.
RECURSIVE KeepUnmarked(_, _, _)
KeepUnmarked(ps, marked, i) ==
    IF i > Len(ps) THEN <<>>
    ELSE (IF i \in marked THEN <<>> ELSE << ps[i] >>) \o KeepUnmarked(ps, marked, i + 1)

TruncateParts(ps, blocks, need) == KeepUnmarked(ps, MarkedForRemoval(ps, blocks, need), 1)

(***************************************************************************)
(* Prompt._reset_parts: a deep copy of the backup when there is one, else  *)
(* the live parts stay as they are.                                        *)
(***************************************************************************)
ResetParts(ps, bak) == IF Truthy(bak) THEN Val(bak) ELSE ps

(***************************************************************************)
(* Object identity.  The backup is made by copy.deepcopy (tokenize, line   *)
(* 151) and restored by copy.deepcopy (_reset_parts, line 491); the part   *)
(* lists are modelled as values, and bak_shared tells whether a live part  *)
(* is the same object as the part of that name in the backup.              *)
(***************************************************************************)
\* A copy that copies the list and not its parts, for C25 to tell from the
\* code's.
DeepCopyShares_Shallow == TRUE

\* copy.deepcopy: the copy shares no part object with the original.
DeepCopyShares == FALSE

\* The backup after the live parts have been written in place (part.content,
\* part.tokens): a part of the backup that is the same object as a live part
\* shows the write.
WrittenThrough(bak, shared, live) ==
    IF IsNone(bak) \/ ~shared THEN bak
    ELSE Some([j \in 1..Len(Val(bak)) |->
                 IF \E i \in 1..Len(live) : live[i].name = Val(bak)[j].name
                 THEN live[CHOOSE i \in 1..Len(live) : live[i].name = Val(bak)[j].name]
                 ELSE Val(bak)[j]])

(***************************************************************************)
(* Prompt.truncate as a function of the document: how the call ends, and   *)
(* the live parts and the token cache it leaves.  tl and ts are the        *)
(* arguments as passed (Optional); limit and step the effective values.    *)
(***************************************************************************)
EffectiveLimit(tl, ctor_limit) == IF IsNone(tl) THEN ctor_limit ELSE Val(tl)

EffectiveStep(ts, ctor_step) == IF IsNone(ts) THEN ctor_step ELSE Val(ts)

\* A truncate without the -1 short cut, for C8 to tell from the code's.
NoTruncation_Never(limit) == FALSE

\* Line 182: the sentinel that switches truncation off.
NoTruncation(limit) == limit = -1

\* A validation that lets token_limit = 0 through, for C9 to tell from the
\* code's.
InvalidLimit_Negative(limit) == limit < 0

\* Lines 187 and 189: the validation of the arguments.
InvalidLimit(limit) == limit <= 0

InvalidStep(step) == step <= 0

\* A post-condition that is off by one, for C3 to tell from the code's.
ExceedsLimit_OffByOne(tokens, limit) == Len(tokens) > limit + 1

\* Line 208: the post-condition, on the concatenated tokens of the live parts.
ExceedsLimit(tokens, limit) == Len(tokens) > limit

Outcome(result, reason, ps, cache) ==
    [result |-> result, reason |-> reason, parts |-> ps, cached_tokens |-> cache]

\* A rollback that leaves the tokens computed for the post-condition in the
\* cache, for C32 to tell from the code's.
TruncateTokenized_StaleOnRollback(ps, bak, total, limit, step) ==
    LET restored  == ResetParts(ps, bak)
        need      == CalculateNumTokensToTruncate(total, limit, step)
        blocks    == BuildTruncationBlocks(restored)
        truncated == TruncateParts(restored, blocks, need)
        tokens    == ConcatTokens(truncated)
    IN  IF ExceedsLimit(tokens, limit)
        THEN Outcome("TruncationError", "token limit not met",
                     ResetParts(truncated, bak), Some(tokens))
        ELSE Outcome("ok", "truncated", truncated, Some(tokens))

\* Lines 196-214: reset, need, blocks, removal, post-condition, rollback.
TruncateTokenized(ps, bak, total, limit, step) ==
    LET restored  == ResetParts(ps, bak)
        need      == CalculateNumTokensToTruncate(total, limit, step)
        blocks    == BuildTruncationBlocks(restored)
        truncated == TruncateParts(restored, blocks, need)
        tokens    == ConcatTokens(truncated)
    IN  IF ExceedsLimit(tokens, limit)
        THEN Outcome("TruncationError", "token limit not met",
                     ResetParts(truncated, bak), None)
        ELSE Outcome("ok", "truncated", truncated, Some(tokens))

\* A truncate that returns silently on a document that is not tokenized, for
\* C10 to tell from the code's.
TruncateOutcome_Unchecked(ps, bak, total, cache, limit, step) ==
    IF NoTruncation(limit)
    THEN Outcome("ok", "no truncation necessary", ps, cache)
    ELSE IF InvalidLimit(limit)
    THEN Outcome("ValueError", "invalid token limit", ps, cache)
    ELSE IF InvalidStep(step)
    THEN Outcome("ValueError", "invalid truncation step", ps, cache)
    ELSE IF ~AllTokenized(ps)
    THEN Outcome("ok", "truncated", ps, cache)
    ELSE TruncateTokenized(ps, bak, total, limit, step)

\* Lines 168-214.
TruncateOutcome(ps, bak, total, cache, limit, step) ==
    IF NoTruncation(limit)
    THEN Outcome("ok", "no truncation necessary", ps, cache)
    ELSE IF InvalidLimit(limit)
    THEN Outcome("ValueError", "invalid token limit", ps, cache)
    ELSE IF InvalidStep(step)
    THEN Outcome("ValueError", "invalid truncation step", ps, cache)
    ELSE IF ~AllTokenized(ps)
    THEN Outcome("ValueError", "not tokenized", ps, cache)
    ELSE TruncateTokenized(ps, bak, total, limit, step)

(***************************************************************************)
(* Prompt._tokenize_part on one part: the part it leaves and the change of *)
(* the running total.  `part.tokens and ...` is Python truthiness: a part  *)
(* whose tokens are None or [] is tokenized whatever the flag.             *)
(***************************************************************************)
\* A forced retokenize that does not take the stale count off the total, for
\* C31 to tell from the code's.
TokenizePart_NoSubtract(p, force_retokenize) ==
    IF Truthy(p.tokens) /\ ~force_retokenize
    THEN [part |-> p, delta |-> 0]
    ELSE LET toks == Tokenize(p.content)
         IN  [part |-> [p EXCEPT !.tokens = Some(toks)], delta |-> Len(toks)]

TokenizePart(p, force_retokenize) ==
    IF Truthy(p.tokens) /\ ~force_retokenize
    THEN [part |-> p, delta |-> 0]
    ELSE LET toks == Tokenize(p.content)
         IN  [part  |-> [p EXCEPT !.tokens = Some(toks)],
              delta |-> Len(toks) - (IF Truthy(p.tokens) THEN NumTokens(p) ELSE 0)]

RECURSIVE SumDeltas(_, _, _)
SumDeltas(ps, force_retokenize, i) ==
    IF i > Len(ps) THEN 0
    ELSE TokenizePart(ps[i], force_retokenize).delta + SumDeltas(ps, force_retokenize, i + 1)

(***************************************************************************)
(* str.startswith and str.lstrip(chars): lstrip removes every leading      *)
(* character that occurs in chars.                                         *)
(***************************************************************************)
\* A prefix test that always succeeds, for C14 to tell from the code's.
StartsWith_Always(content, old) == TRUE

StartsWith(content, old) ==
    /\ Len(old) <= Len(content)
    /\ \A i \in 1..Len(old) : content[i] = old[i]

CharsOf(str) == {str[i] : i \in 1..Len(str)}

RECURSIVE LStrip(_, _)
LStrip(content, chars) ==
    IF content # <<>> /\ Head(content) \in CharsOf(chars)
    THEN LStrip(Tail(content), chars)
    ELSE content

\* Line 163: the content lreplace_at writes.
LReplaced(content, old, new) == new \o LStrip(content, old)

\* Python list indexing: a negative index counts from the end; 0 when the
\* index is out of range (IndexError).
ListIndex(n, index) ==
    IF 0 <= index /\ index < n THEN index + 1
    ELSE IF index < 0 /\ -index <= n THEN n + index + 1
    ELSE 0

(***************************************************************************)
(* The documents a construction can produce: the rendered records, after   *)
(* Prompt._render_parts.  A record may carry tokens of its own.            *)
(***************************************************************************)
\* A record's content, and the tokens it carries (None: left to tokenize()).
Kinds == {[content |-> <<"a">>, tokens |-> None],
          [content |-> <<"a">>, tokens |-> Some(<<7, 7>>)]}
Priorities == -1..MaxPriority
Records == {[content |-> k.content, tokens |-> k.tokens, truncation_priority |-> p] :
              k \in Kinds, p \in Priorities}
\* The (old, new) pairs lreplace_at is called with, and its indices.
Replacements == {[old |-> <<"a">>, new |-> <<"b", "b">>], [old |-> <<"b">>, new |-> <<"a">>]}
Indices == (0 - MaxParts - 1)..MaxParts
TokenLimits == {None} \cup {Some(l) : l \in -1..MaxLimit}
TruncationSteps == {None} \cup {Some(s) : s \in 0..MaxStep}
\* Prompt(...) with the defaults of __init__: token_limit=-1 and
\* truncation_step=None, which line 117 turns into DEFAULT_TRUNCATION_STEP.
CtorArgs == {[token_limit |-> -1, truncation_step |-> DEFAULT_TRUNCATION_STEP]}

ContentInRange(ps) == \A i \in 1..Len(ps) : Len(ps[i].content) <= MaxContent

TotalInRange(total) == (0 - MaxDrift) <= total /\ total <= 2 * MaxParts + MaxDrift

Threads == 1..MaxThreads

\* tokenizer.py lines 7-8 at import, no thread inside get_default_tokenizer.
TokenizerStart ==
    /\ TOKENIZER = None
    /\ tokenizer_lock = 0
    /\ tokenizer_pc = [t \in Threads |-> "idle"]
    /\ tokenizer_ret = [t \in Threads |-> [result |-> "none", tokenizer |-> None]]
    /\ heather_calls = 0

\* The threads that look templates up, and the cache keys they ask for.
RegistryThreads == {1, 2}
CacheKeys == {"k1", "k2"}

NoLookup == [key |-> "k1", use_cache |-> FALSE]
NoLocal == [load_from_disk |-> FALSE, template |-> None]
NoReturn == [result |-> "none", template |-> None]

\* No thread inside a lookup, nothing compiled.
RegistryIdle ==
    /\ registry_pc = [t \in RegistryThreads |-> "idle"]
    /\ registry_args = [t \in RegistryThreads |-> NoLookup]
    /\ registry_local = [t \in RegistryThreads |-> NoLocal]
    /\ registry_ret = [t \in RegistryThreads |-> NoReturn]
    /\ compiles = 0

\* template_registry.py line 16: no registry has been made yet.
RegistryStart ==
    /\ registry_initialized = FALSE
    /\ registry_cache = <<>>
    /\ registry_max = CACHE_MAX_SIZE
    /\ RegistryIdle

\* No string has been escaped or unescaped.
EscapeStart ==
    /\ escape_string = <<>>
    /\ escape_value = <<>>
    /\ escape_calls = <<>>

\* No call of pretruncate_messages is under way.
MessagesStart ==
    /\ messages = <<>>
    /\ messages_arg = <<>>
    /\ messages_token_limit = -1
    /\ messages_pc = "idle"

\* No template has been looked up.
KeysStart ==
    /\ keys_cache = {}
    /\ keys_calls = <<>>

MoreStart == MessagesStart /\ KeysStart

\* The process as a Prompt finds it.
ProcessStart ==
    /\ TokenizerStart
    /\ chartok_installed = TRUE
    /\ RegistryStart
    /\ EscapeStart
    /\ MoreStart

\* Lines 434-437: the keys _load_special_template_data puts into the data.
SpecialKeys == {"token_limit", "escape_special_characters"}

Call(op, result, reason) == [op |-> op, result |-> result, reason |-> reason]

\* Prompt.__init__ and _render_parts (lines 131-139, 446-462).
Init ==
    \E n \in 0..MaxParts : \E doc \in [1..n -> Records] : \E ctor \in CtorArgs :
        /\ parts = [i \in 1..n |-> PromptPart(i, doc[i].content, doc[i].tokens,
                                              doc[i].truncation_priority)]
        /\ parts_bak = None
        /\ bak_shared = FALSE
        /\ total_tokens = SumTokens(parts)
        /\ cached_tokens = None
        /\ cached_pretruncation_tokens = None
        /\ token_limit = ctor.token_limit
        /\ truncation_step = ctor.truncation_step
        /\ last = Call("__init__", "ok", "constructed")
        /\ template_data = SpecialKeys
        /\ rendered_template = Some("yaml")
        /\ ProcessStart

\* Prompt.tokenize (lines 141-151).
TokenizeCall(force_retokenize) ==
    /\ IF parts = <<>>
       THEN /\ last' = Call("tokenize", "ValueError", "nothing to tokenize")
            /\ UNCHANGED <<parts, parts_bak, bak_shared, total_tokens, cached_tokens>>
       ELSE /\ parts' = [i \in 1..Len(parts) |-> TokenizePart(parts[i], force_retokenize).part]
            /\ total_tokens' = total_tokens + SumDeltas(parts, force_retokenize, 1)
            /\ cached_tokens' = None
            /\ parts_bak' = IF IsNone(parts_bak) THEN Some(parts')
                            ELSE WrittenThrough(parts_bak, bak_shared, parts')
            /\ bak_shared' = IF IsNone(parts_bak) THEN DeepCopyShares ELSE bak_shared
            /\ last' = Call("tokenize", "ok", "tokenized")
    /\ TotalInRange(total_tokens')
    /\ UNCHANGED <<cached_pretruncation_tokens, token_limit, truncation_step>>
    /\ UNCHANGED outside

\* Prompt.lreplace_at (lines 153-166).
LreplaceAt(old, new, index) ==
    LET i == ListIndex(Len(parts), index)
    IN
    /\ IF ~(Len(parts) > index) \/ i = 0
       THEN /\ last' = Call("lreplace_at", "IndexError", "index out of bounds")
            /\ UNCHANGED <<parts, total_tokens, cached_tokens>>
       ELSE IF ~StartsWith(parts[i].content, old)
       THEN /\ last' = Call("lreplace_at", "ok", "no match")
            /\ UNCHANGED <<parts, total_tokens, cached_tokens>>
       ELSE LET edited == [parts[i] EXCEPT !.content = LReplaced(parts[i].content, old, new)]
                done   == TokenizePart(edited, TRUE)
            IN  /\ parts' = [parts EXCEPT ![i] = done.part]
                /\ total_tokens' = total_tokens + done.delta
                /\ cached_tokens' = None
                /\ last' = Call("lreplace_at", "ok", "replaced")
    /\ TotalInRange(total_tokens')
    /\ ContentInRange(parts')
    /\ parts_bak' = WrittenThrough(parts_bak, bak_shared, parts')
    /\ UNCHANGED <<bak_shared, cached_pretruncation_tokens, token_limit, truncation_step>>
    /\ UNCHANGED outside

\* Prompt.truncate (lines 168-214).
Truncate(tl, ts) ==
    LET out == TruncateOutcome(parts, parts_bak, total_tokens, cached_tokens,
                               EffectiveLimit(tl, token_limit),
                               EffectiveStep(ts, truncation_step))
    IN  /\ parts' = out.parts
        /\ cached_tokens' = out.cached_tokens
        /\ last' = Call("truncate", out.result, out.reason)
        /\ bak_shared' = IF out.reason \in {"truncated", "token limit not met"}
                               /\ Truthy(parts_bak)
                          THEN DeepCopyShares ELSE bak_shared
        /\ UNCHANGED <<parts_bak, total_tokens, cached_pretruncation_tokens,
                       token_limit, truncation_step>>
        /\ UNCHANGED outside

\* The property Prompt.tokens (lines 273-286).
ReadTokens ==
    /\ IF Truthy(cached_tokens)
       THEN /\ last' = Call("tokens", "ok", "cached")
            /\ UNCHANGED cached_tokens
       ELSE IF ~AllTokenized(parts)
       THEN /\ last' = Call("tokens", "TypeError", "not tokenized")
            /\ UNCHANGED cached_tokens
       ELSE /\ cached_tokens' = Some(ConcatTokens(parts))
            /\ last' = Call("tokens", "ok", "computed")
    /\ UNCHANGED <<parts, parts_bak, bak_shared, total_tokens,
                   cached_pretruncation_tokens, token_limit, truncation_step>>
    /\ UNCHANGED outside

\* The property Prompt.pretruncation_tokens (lines 258-271).
ReadPretruncationTokens ==
    LET pre == PretruncationParts(parts, parts_bak)
    IN
    /\ IF Truthy(cached_pretruncation_tokens)
       THEN /\ last' = Call("pretruncation_tokens", "ok", "cached")
            /\ UNCHANGED cached_pretruncation_tokens
       ELSE IF ~AllTokenized(pre)
       THEN /\ last' = Call("pretruncation_tokens", "TypeError", "not tokenized")
            /\ UNCHANGED cached_pretruncation_tokens
       ELSE /\ cached_pretruncation_tokens' = Some(ConcatTokens(pre))
            /\ last' = Call("pretruncation_tokens", "ok", "computed")
    /\ UNCHANGED <<parts, parts_bak, bak_shared, total_tokens, cached_tokens,
                   token_limit, truncation_step>>
    /\ UNCHANGED outside

\* The value of the property Prompt.openai_messages (lines 296-299).
OpenaiMessages(ps) ==
    [i \in 1..Len(ps) |-> [role |-> ps[i].role, content |-> ps[i].content]]

\* The property Prompt.openai_messages (lines 296-299) is read: it looks at
\* the role and the content of the parts and at nothing else.
ReadOpenaiMessages ==
    /\ last' = Call("openai_messages", "ok", "messages")
    /\ UNCHANGED <<parts, parts_bak, bak_shared, total_tokens, cached_tokens,
                   cached_pretruncation_tokens, token_limit, truncation_step>>
    /\ UNCHANGED outside

Next ==
    \/ \E force_retokenize \in BOOLEAN : TokenizeCall(force_retokenize)
    \/ \E r \in Replacements, index \in Indices : LreplaceAt(r.old, r.new, index)
    \/ \E tl \in TokenLimits, ts \in TruncationSteps : Truncate(tl, ts)

\* The methods that change the document.
Spec == Init /\ [][Next]_vars

\* The same, with the token and message properties read in between.
NextReads ==
    \/ Next
    \/ ReadTokens
    \/ ReadPretruncationTokens
    \/ ReadOpenaiMessages

SpecReads == Init /\ [][NextReads]_vars

\* The properties read between the calls of tokenize, of lreplace_at with
\* one pair of strings and of truncate with a step of one token.
NextAccess ==
    \/ \E force_retokenize \in BOOLEAN : TokenizeCall(force_retokenize)
    \/ \E index \in Indices : LreplaceAt(<<"a">>, <<"b", "b">>, index)
    \/ \E tl \in TokenLimits : Truncate(tl, Some(1))
    \/ ReadTokens
    \/ ReadPretruncationTokens
    \/ ReadOpenaiMessages

SpecAccess == Init /\ [][NextAccess]_vars

(***************************************************************************)
(* The edits of lreplace_at on contents of several characters: documents   *)
(* whose records are rendered with any content over {a, b} of at most      *)
(* MaxLen characters, edited with any old and new among EditStrings.       *)
(***************************************************************************)
Chars == {"a", "b"}
Contents == UNION {[1..n -> Chars] : n \in 1..MaxLen}
EditStrings == {<<"a">>, <<"b">>, <<"a", "b">>}
EditReplacements == {[old |-> o, new |-> n] : o \in EditStrings, n \in EditStrings}
EditRecords == {[content |-> c, tokens |-> t, truncation_priority |-> 1] :
                  c \in Contents, t \in {None, Some(<<7>>)}}

InitEdit ==
    \E n \in 1..MaxParts : \E doc \in [1..n -> EditRecords] : \E ctor \in CtorArgs :
        /\ parts = [i \in 1..n |-> PromptPart(i, doc[i].content, doc[i].tokens,
                                              doc[i].truncation_priority)]
        /\ parts_bak = None
        /\ bak_shared = FALSE
        /\ total_tokens = SumTokens(parts)
        /\ cached_tokens = None
        /\ cached_pretruncation_tokens = None
        /\ token_limit = ctor.token_limit
        /\ truncation_step = ctor.truncation_step
        /\ last = Call("__init__", "ok", "constructed")
        /\ template_data = SpecialKeys
        /\ rendered_template = Some("yaml")
        /\ ProcessStart

NextEdit == \E r \in EditReplacements, index \in Indices : LreplaceAt(r.old, r.new, index)

SpecEdit == InitEdit /\ [][NextEdit]_vars

(***************************************************************************)
(* Construction as a step: Prompt(template_data=..., ...) called where no  *)
(* Prompt is held.  A construction that raises leaves no object behind.    *)
(***************************************************************************)
DataKeys == {"var1", "token_limit", "escape_special_characters"}
TemplateData == SUBSET DataKeys

\* A check of the first reserved key only, for C15 to tell from the code's.
ReservedKeyError_LimitOnly(data) ==
    IF "token_limit" \in data THEN Some("token_limit") ELSE None

\* Lines 426-432: the reserved key _load_special_template_data rejects.
ReservedKeyError(data) ==
    IF "token_limit" \in data THEN Some("token_limit")
    ELSE IF "escape_special_characters" \in data THEN Some("escape_special_characters")
    ELSE None

\* No Prompt object: what is left when __init__ raises, and before any call.
NoPrompt(call) ==
    /\ parts' = <<>>
    /\ parts_bak' = None
    /\ bak_shared' = FALSE
    /\ total_tokens' = 0
    /\ cached_tokens' = None
    /\ cached_pretruncation_tokens' = None
    /\ token_limit' = -1
    /\ truncation_step' = DEFAULT_TRUNCATION_STEP
    /\ template_data' = {}
    /\ rendered_template' = None
    /\ last' = call

InitCtor ==
    /\ parts = <<>>
    /\ parts_bak = None
    /\ bak_shared = FALSE
    /\ total_tokens = 0
    /\ cached_tokens = None
    /\ cached_pretruncation_tokens = None
    /\ token_limit = -1
    /\ truncation_step = DEFAULT_TRUNCATION_STEP
    /\ template_data = {}
    /\ rendered_template = None
    /\ last = Call("none", "ok", "no prompt")
    /\ ProcessStart

\* Prompt.__init__ (lines 85-139): Template(...) loads the template (line
\* 107; template.py lines 100-111 raise when it cannot be loaded), then
\* _load_special_template_data (line 138), then _render_parts (line 139).
Construct(loadable, data, doc, ctor) ==
    /\ UNCHANGED <<tokenizer_vars, registry_vars, escape_vars, more_vars>>
    /\ IF ~loadable
       THEN NoPrompt(Call("__init__", "TemplateNotFound", "template not loaded"))
       ELSE IF ~IsNone(ReservedKeyError(data))
       THEN NoPrompt(Call("__init__", "ValueError", "reserved key"))
       ELSE /\ template_data' = data \cup SpecialKeys
            /\ rendered_template' = Some("yaml")
            /\ parts' = [i \in 1..Len(doc) |-> PromptPart(i, doc[i].content, doc[i].tokens,
                                                          doc[i].truncation_priority)]
            /\ parts_bak' = None
            /\ bak_shared' = FALSE
            /\ total_tokens' = SumTokens(parts')
            /\ cached_tokens' = None
            /\ cached_pretruncation_tokens' = None
            /\ token_limit' = ctor.token_limit
            /\ truncation_step' = ctor.truncation_step
            /\ last' = Call("__init__", "ok", "constructed")

Documents == UNION {[1..n -> Records] : n \in 0..MaxParts}

NextCtor ==
    \E loadable \in BOOLEAN, data \in TemplateData, doc \in Documents, ctor \in CtorArgs :
        Construct(loadable, data, doc, ctor)

SpecCtor == InitCtor /\ [][NextCtor]_vars

(***************************************************************************)
(* get_default_tokenizer (tokenizer.py lines 98-110) called from several   *)
(* threads, one step per statement; `with _tokenizer_lock:` is an acquire  *)
(* on entry and a release on exit.                                         *)
(***************************************************************************)
\* What get_default_tokenizer leaves alone.
not_tokenizer == <<prompt_vars, ctor_vars, registry_vars, escape_vars, more_vars>>

\* A lock that never blocks, for C16 to tell from the code's.
LockFree_Always(lock) == TRUE

\* threading.Lock: acquire blocks while another thread holds the lock.
LockFree(lock) == lock = 0

InitTokenizer ==
    /\ parts = <<>>
    /\ parts_bak = None
    /\ bak_shared = FALSE
    /\ total_tokens = 0
    /\ cached_tokens = None
    /\ cached_pretruncation_tokens = None
    /\ token_limit = -1
    /\ truncation_step = DEFAULT_TRUNCATION_STEP
    /\ template_data = {}
    /\ rendered_template = None
    /\ last = Call("none", "ok", "no prompt")
    /\ EscapeStart
    /\ MoreStart
    /\ TokenizerStart
    /\ chartok_installed \in BOOLEAN
    /\ RegistryStart

\* A thread calls get_default_tokenizer().
TokenizerCall(t) ==
    /\ tokenizer_pc[t] \in {"idle", "done"}
    /\ tokenizer_pc' = [tokenizer_pc EXCEPT ![t] = "check"]
    /\ UNCHANGED <<TOKENIZER, tokenizer_lock, tokenizer_ret, heather_calls,
                   chartok_installed, not_tokenizer>>

\* Line 101 and lines 84-95: _check_chartok_version raises ImportError when
\* the package is missing or of another version.
TokenizerCheckVersion(t) ==
    /\ tokenizer_pc[t] = "check"
    /\ IF chartok_installed
       THEN /\ tokenizer_pc' = [tokenizer_pc EXCEPT ![t] = "acquire"]
            /\ UNCHANGED tokenizer_ret
       ELSE /\ tokenizer_pc' = [tokenizer_pc EXCEPT ![t] = "done"]
            /\ tokenizer_ret' = [tokenizer_ret EXCEPT
                                 ![t] = [result |-> "ImportError", tokenizer |-> None]]
    /\ UNCHANGED <<TOKENIZER, tokenizer_lock, heather_calls, chartok_installed,
                   not_tokenizer>>

\* Line 107: with _tokenizer_lock.
TokenizerAcquire(t) ==
    /\ tokenizer_pc[t] = "acquire"
    /\ LockFree(tokenizer_lock)
    /\ tokenizer_lock' = t
    /\ tokenizer_pc' = [tokenizer_pc EXCEPT ![t] = "test"]
    /\ UNCHANGED <<TOKENIZER, tokenizer_ret, heather_calls, chartok_installed,
                   not_tokenizer>>

\* Line 108: if _TOKENIZER is None.
TokenizerTest(t) ==
    /\ tokenizer_pc[t] = "test"
    /\ tokenizer_pc' = [tokenizer_pc EXCEPT ![t] =
                            IF IsNone(TOKENIZER) THEN "build" ELSE "release"]
    /\ UNCHANGED <<TOKENIZER, tokenizer_lock, tokenizer_ret, heather_calls,
                   chartok_installed, not_tokenizer>>

\* Line 109: _TOKENIZER = heather(); every run of heather() makes a new
\* instance, named by its number.
TokenizerBuild(t) ==
    /\ tokenizer_pc[t] = "build"
    /\ heather_calls' = heather_calls + 1
    /\ TOKENIZER' = Some(heather_calls')
    /\ tokenizer_pc' = [tokenizer_pc EXCEPT ![t] = "release"]
    /\ UNCHANGED <<tokenizer_lock, tokenizer_ret, chartok_installed, not_tokenizer>>

\* The end of the with block.
TokenizerRelease(t) ==
    /\ tokenizer_pc[t] = "release"
    /\ tokenizer_lock' = 0
    /\ tokenizer_pc' = [tokenizer_pc EXCEPT ![t] = "return"]
    /\ UNCHANGED <<TOKENIZER, tokenizer_ret, heather_calls, chartok_installed,
                   not_tokenizer>>

\* Line 110: return _TOKENIZER.
TokenizerReturn(t) ==
    /\ tokenizer_pc[t] = "return"
    /\ tokenizer_ret' = [tokenizer_ret EXCEPT
                            ![t] = [result |-> "ok", tokenizer |-> TOKENIZER]]
    /\ tokenizer_pc' = [tokenizer_pc EXCEPT ![t] = "done"]
    /\ UNCHANGED <<TOKENIZER, tokenizer_lock, heather_calls, chartok_installed,
                   not_tokenizer>>

NextTokenizer ==
    \/ \E t \in Threads : TokenizerCall(t)
    \/ \E t \in Threads : TokenizerCheckVersion(t)
    \/ \E t \in Threads : TokenizerAcquire(t)
    \/ \E t \in Threads : TokenizerTest(t)
    \/ \E t \in Threads : TokenizerBuild(t)
    \/ \E t \in Threads : TokenizerRelease(t)
    \/ \E t \in Threads : TokenizerReturn(t)

SpecTokenizer == InitTokenizer /\ [][NextTokenizer]_vars

(***************************************************************************)
(* Template._load_template (template.py lines 105-111): a thread makes     *)
(* TemplateRegistry(...) and calls get_template (template_registry.py      *)
(* lines 18-80), one step per statement.  No statement of it takes a lock. *)
(* _cache is a cachetools.TTLCache: an entry leaves it when its time to    *)
(* live is over, and a new key put into a full cache pushes the oldest     *)
(* entry out before it is stored.                                          *)
(***************************************************************************)
\* What a lookup leaves alone.
not_registry == <<prompt_vars, ctor_vars, tokenizer_vars, escape_vars, more_vars>>

\* key in self._cache
CacheHas(cache, key) == \E i \in 1..Len(cache) : cache[i].key = key

\* self._cache[key], for a key the cache has
CacheGet(cache, key) == cache[CHOOSE i \in 1..Len(cache) : cache[i].key = key].template

KeepNewest(cache, n) ==
    IF Len(cache) <= n THEN cache ELSE SubSeq(cache, Len(cache) - n + 1, Len(cache))

\* TTLCache.__setitem__, first half: a key that is new pushes the oldest
\* entries out until there is room for it.
Evicted(cache, key, maxsize) ==
    IF CacheHas(cache, key) THEN cache ELSE KeepNewest(cache, Max(maxsize - 1, 0))

\* TTLCache.__setitem__, second half: the entry is stored as the newest.
Stored(cache, key, template) ==
    SelectSeq(cache, LAMBDA e : e.key # key) \o <<[key |-> key, template |-> template]>>

InitRegistry ==
    /\ parts = <<>>
    /\ parts_bak = None
    /\ bak_shared = FALSE
    /\ total_tokens = 0
    /\ cached_tokens = None
    /\ cached_pretruncation_tokens = None
    /\ token_limit = -1
    /\ truncation_step = DEFAULT_TRUNCATION_STEP
    /\ template_data = {}
    /\ rendered_template = None
    /\ last = Call("none", "ok", "no prompt")
    /\ EscapeStart
    /\ MoreStart
    /\ TokenizerStart
    /\ chartok_installed = TRUE
    /\ RegistryIdle
    /\ registry_cache = <<>>
    /\ \/ registry_initialized = FALSE /\ registry_max = CACHE_MAX_SIZE
       \/ registry_initialized = TRUE /\ registry_max \in 1..MaxCacheSize

\* A thread starts a lookup: Template._load_template, lines 105-111, and
\* TemplateRegistry.__new__, lines 18-25.
RegistryCall(t, key, use_cache) ==
    /\ registry_pc[t] \in {"idle", "done"}
    /\ registry_pc' = [registry_pc EXCEPT ![t] = "init_test"]
    /\ registry_args' = [registry_args EXCEPT ![t] = [key |-> key, use_cache |-> use_cache]]
    /\ registry_local' = [registry_local EXCEPT ![t] = NoLocal]
    /\ registry_ret' = [registry_ret EXCEPT ![t] = NoReturn]
    /\ UNCHANGED <<registry_initialized, registry_cache, registry_max, compiles,
                   not_registry>>

\* __init__, line 37: if not self._initialized or reset.
RegistryInitTest(t) ==
    /\ registry_pc[t] = "init_test"
    /\ registry_pc' = [registry_pc EXCEPT ![t] =
                           IF registry_initialized THEN "test" ELSE "init_cache"]
    /\ UNCHANGED <<registry_initialized, registry_cache, registry_max, registry_args,
                   registry_local, registry_ret, compiles, not_registry>>

\* __init__, lines 38-40: a new, empty TTLCache of the default size.
RegistryInitCache(t) ==
    /\ registry_pc[t] = "init_cache"
    /\ registry_cache' = <<>>
    /\ registry_max' = CACHE_MAX_SIZE
    /\ registry_initialized' = TRUE
    /\ registry_pc' = [registry_pc EXCEPT ![t] = "test"]
    /\ UNCHANGED <<registry_args, registry_local, registry_ret, compiles, not_registry>>

\* get_template, line 73: load_from_disk.
RegistryTest(t) ==
    LET load == ~registry_args[t].use_cache
                  \/ ~CacheHas(registry_cache, registry_args[t].key)
    IN  /\ registry_pc[t] = "test"
        /\ registry_local' = [registry_local EXCEPT ![t].load_from_disk = load]
        /\ registry_pc' = [registry_pc EXCEPT ![t] = IF load THEN "load" ELSE "read"]
        /\ UNCHANGED <<registry_initialized, registry_cache, registry_max, registry_args,
                       registry_ret, compiles, not_registry>>

\* Line 76, right-hand side: _load_template compiles the template; every
\* compilation makes a new template object, named by its key and number.
RegistryLoad(t) ==
    /\ registry_pc[t] = "load"
    /\ compiles < MaxCompiles
    /\ compiles' = compiles + 1
    /\ registry_local' = [registry_local EXCEPT ![t].template =
                              Some([key |-> registry_args[t].key, version |-> compiles'])]
    /\ registry_pc' = [registry_pc EXCEPT ![t] = "evict"]
    /\ UNCHANGED <<registry_initialized, registry_cache, registry_max, registry_args,
                   registry_ret, not_registry>>

\* Line 76, self._cache[cache_key] = ...: room is made.
RegistryEvict(t) ==
    /\ registry_pc[t] = "evict"
    /\ registry_cache' = Evicted(registry_cache, registry_args[t].key, registry_max)
    /\ registry_pc' = [registry_pc EXCEPT ![t] = "store"]
    /\ UNCHANGED <<registry_initialized, registry_max, registry_args, registry_local,
                   registry_ret, compiles, not_registry>>

\* Line 76, self._cache[cache_key] = ...: the entry is stored.
RegistryStore(t) ==
    /\ registry_pc[t] = "store"
    /\ registry_cache' = Stored(registry_cache, registry_args[t].key,
                                Val(registry_local[t].template))
    /\ registry_pc' = [registry_pc EXCEPT ![t] = "read"]
    /\ UNCHANGED <<registry_initialized, registry_max, registry_args, registry_local,
                   registry_ret, compiles, not_registry>>

\* Line 80: return self._cache[cache_key]; KeyError when the key is gone.
RegistryRead(t) ==
    /\ registry_pc[t] = "read"
    /\ registry_ret' = [registry_ret EXCEPT ![t] =
           IF CacheHas(registry_cache, registry_args[t].key)
           THEN [result |-> "ok",
                 template |-> Some(CacheGet(registry_cache, registry_args[t].key))]
           ELSE [result |-> "KeyError", template |-> None]]
    /\ registry_pc' = [registry_pc EXCEPT ![t] = "done"]
    /\ UNCHANGED <<registry_initialized, registry_cache, registry_max, registry_args,
                   registry_local, compiles, not_registry>>

\* Time passes: the time to live of the oldest entry is over.
RegistryExpire ==
    /\ registry_cache # <<>>
    /\ registry_cache' = Tail(registry_cache)
    /\ UNCHANGED <<registry_initialized, registry_max, registry_pc, registry_args,
                   registry_local, registry_ret, compiles, not_registry>>

\* The lookups of the threads, in a time shorter than any time to live.
NextLookups ==
    \/ \E t \in RegistryThreads, key \in CacheKeys, use_cache \in BOOLEAN :
          RegistryCall(t, key, use_cache)
    \/ \E t \in RegistryThreads : RegistryInitTest(t)
    \/ \E t \in RegistryThreads : RegistryInitCache(t)
    \/ \E t \in RegistryThreads : RegistryTest(t)
    \/ \E t \in RegistryThreads : RegistryLoad(t)
    \/ \E t \in RegistryThreads : RegistryEvict(t)
    \/ \E t \in RegistryThreads : RegistryStore(t)
    \/ \E t \in RegistryThreads : RegistryRead(t)

SpecLookups == InitRegistry /\ [][NextLookups]_vars

\* The lookups, with entries running out of time in between.
NextRegistry ==
    \/ NextLookups
    \/ RegistryExpire

SpecRegistry == InitRegistry /\ [][NextRegistry]_vars

(***************************************************************************)
(* The escape scheme of prompt.py: _escape_special_characters (lines       *)
(* 469-475) and _unescape_special_characters (lines 477-483) under the     *)
(* defaults of __init__ (lines 98-103).                                    *)
(***************************************************************************)
newline == <<"\n">>
escaped_newline == <<"\\", "n">>
carriage_return == <<"\r">>
escaped_carriage_return == <<"\\", "r">>
single_quote == <<"'">>
escaped_single_quote == <<"'">>

\* str.replace(old, new) for a non-empty old: the occurrences of old are
\* found from the left, without overlap.
RECURSIVE Replace(_, _, _)
Replace(s, old, new) ==
    IF Len(s) < Len(old) THEN s
    ELSE IF SubSeq(s, 1, Len(old)) = old
         THEN new \o Replace(SubSeq(s, Len(old) + 1, Len(s)), old, new)
         ELSE <<Head(s)>> \o Replace(Tail(s), old, new)

\* Prompt._escape_special_characters, lines 469-475.
EscapeSpecialCharacters(s) ==
    Replace(Replace(Replace(s, newline, escaped_newline),
                    carriage_return, escaped_carriage_return),
            single_quote, escaped_single_quote)

\* Prompt._unescape_special_characters, lines 477-483.
UnescapeSpecialCharacters(s) ==
    Replace(Replace(Replace(s, escaped_newline, newline),
                    escaped_carriage_return, carriage_return),
            escaped_single_quote, single_quote)

\* The characters of the strings: the three raw characters, the characters
\* of their escaped forms, and one that is neither.
EscapeChars == {"\n", "\r", "'", "\\", "n", "r", "x"}

EscapeInputs == UNION {[1..n -> EscapeChars] : n \in 1..MaxEscapeLen}

\* s contains sub.
Contains(s, sub) ==
    \E i \in 1..(Len(s) - Len(sub) + 1) : SubSeq(s, i, i + Len(sub) - 1) = sub

InitEscape ==
    /\ parts = <<>>
    /\ parts_bak = None
    /\ bak_shared = FALSE
    /\ total_tokens = 0
    /\ cached_tokens = None
    /\ cached_pretruncation_tokens = None
    /\ token_limit = -1
    /\ truncation_step = DEFAULT_TRUNCATION_STEP
    /\ template_data = {}
    /\ rendered_template = None
    /\ last = Call("none", "ok", "no prompt")
    /\ TokenizerStart
    /\ chartok_installed = TRUE
    /\ RegistryStart
    /\ escape_string \in EscapeInputs
    /\ escape_value = escape_string
    /\ escape_calls = <<>>
    /\ MoreStart

not_escape == <<prompt_vars, ctor_vars, tokenizer_vars, registry_vars, more_vars>>

\* _escape_special_characters(escape_value)
EscapeCall ==
    /\ Len(escape_calls) < MaxEscapeCalls
    /\ escape_value' = EscapeSpecialCharacters(escape_value)
    /\ escape_calls' = Append(escape_calls, "escape")
    /\ UNCHANGED <<escape_string, not_escape>>

\* _unescape_special_characters(escape_value)
UnescapeCall ==
    /\ Len(escape_calls) < MaxEscapeCalls
    /\ escape_value' = UnescapeSpecialCharacters(escape_value)
    /\ escape_calls' = Append(escape_calls, "unescape")
    /\ UNCHANGED <<escape_string, not_escape>>

NextEscape ==
    \/ EscapeCall
    \/ UnescapeCall

SpecEscape == InitEscape /\ [][NextEscape]_vars

(***************************************************************************)
(* The removal of _truncate on longer documents: tokenized documents of up *)
(* to MaxBlockParts parts, as construction from records that carry tokens  *)
(* leaves them (no backup) or as tokenize() leaves them (backup taken),    *)
(* truncated again and again with limits up to MaxBlockLimit.              *)
(***************************************************************************)
BlockTokens == {<<1>>, <<7, 7>>}

\* One protected priority and the positive ones.
BlockPriorities == 0..MaxPriority

BlockRecords == {[tokens |-> t, truncation_priority |-> p] :
                   t \in BlockTokens, p \in BlockPriorities}

BlockLimits == 1..MaxBlockLimit

BlockSteps == 1..MaxStep

InitBlocks ==
    \E n \in 0..MaxBlockParts : \E doc \in [1..n -> BlockRecords] :
        /\ parts = [i \in 1..n |-> PromptPart(i, <<"a">>, Some(doc[i].tokens),
                                              doc[i].truncation_priority)]
        /\ parts_bak \in (IF n = 0 THEN {None} ELSE {None, Some(parts)})
        /\ bak_shared = FALSE
        /\ total_tokens = SumTokens(parts)
        /\ cached_tokens = None
        /\ cached_pretruncation_tokens = None
        /\ token_limit = -1
        /\ truncation_step = DEFAULT_TRUNCATION_STEP
        /\ last = Call("__init__", "ok", "constructed")
        /\ template_data = SpecialKeys
        /\ rendered_template = Some("yaml")
        /\ ProcessStart

NextBlocks == \E l \in BlockLimits, s \in BlockSteps : Truncate(Some(l), Some(s))

SpecBlocks == InitBlocks /\ [][NextBlocks]_vars

(***************************************************************************)
(* Tokenization before any truncation: documents whose records have an     *)
(* empty or non-empty content and carry no tokens, an empty token list or  *)
(* tokens of their own, under tokenize() and tokenize(force_retokenize=    *)
(* True).                                                                  *)
(***************************************************************************)
TokenizeContents == {<<>>, <<"a">>, <<"a", "b">>}

TokenizeTokens == {None, Some(<<>>), Some(<<7>>), Some(<<7, 7>>)}

TokenizeRecords == {[content |-> c, tokens |-> t] :
                      c \in TokenizeContents, t \in TokenizeTokens}

InitTokenize ==
    \E n \in 0..MaxParts : \E doc \in [1..n -> TokenizeRecords] :
        /\ parts = [i \in 1..n |-> PromptPart(i, doc[i].content, doc[i].tokens, 1)]
        /\ parts_bak = None
        /\ bak_shared = FALSE
        /\ total_tokens = SumTokens(parts)
        /\ cached_tokens = None
        /\ cached_pretruncation_tokens = None
        /\ token_limit = -1
        /\ truncation_step = DEFAULT_TRUNCATION_STEP
        /\ last = Call("__init__", "ok", "constructed")
        /\ template_data = SpecialKeys
        /\ rendered_template = Some("yaml")
        /\ ProcessStart

NextTokenize == \E force_retokenize \in BOOLEAN : TokenizeCall(force_retokenize)

SpecTokenize == InitTokenize /\ [][NextTokenize]_vars

(***************************************************************************)
(* examples.cai_helpers.pretruncate_messages (cai_helpers.py lines 81-91),  *)
(* one action for the test of line 85 and one for each turn of the loop of *)
(* lines 89-90.  A message is known by its place in the list the call was  *)
(* given.                                                                  *)
(***************************************************************************)
NoPromptStart ==
    /\ parts = <<>>
    /\ parts_bak = None
    /\ bak_shared = FALSE
    /\ total_tokens = 0
    /\ cached_tokens = None
    /\ cached_pretruncation_tokens = None
    /\ token_limit = -1
    /\ truncation_step = DEFAULT_TRUNCATION_STEP
    /\ template_data = {}
    /\ rendered_template = None
    /\ last = Call("none", "ok", "no prompt")
    /\ TokenizerStart
    /\ chartok_installed = TRUE
    /\ RegistryStart
    /\ EscapeStart

InitMessages ==
    /\ NoPromptStart
    /\ KeysStart
    /\ \E n \in 0..MaxMessages : messages_arg = [i \in 1..n |-> i]
    /\ messages = messages_arg
    /\ messages_token_limit \in -1..MaxTokenLimit
    /\ messages_pc = "call"

not_messages == <<prompt_vars, ctor_vars, tokenizer_vars, registry_vars,
                  escape_vars, keys_vars>>

\* messages[n:] for n >= 0
SliceFrom(list, n) == SubSeq(list, n + 1, Len(list))

\* Lines 85-88: a negative limit returns the list as it is.
PretruncateEnter ==
    /\ messages_pc = "call"
    /\ messages_pc' = IF messages_token_limit < 0 THEN "return" ELSE "loop"
    /\ UNCHANGED <<messages, messages_arg, messages_token_limit, not_messages>>

\* Lines 88-91: one test of the loop condition, and the body or the return.
PretruncateLoop ==
    LET message_truncation_step == messages_token_limit \div 10
    IN  /\ messages_pc = "loop"
        /\ IF Len(messages) > 2 * message_truncation_step
           THEN /\ messages' = SliceFrom(messages, message_truncation_step)
                /\ UNCHANGED messages_pc
           ELSE /\ messages_pc' = "return"
                /\ UNCHANGED messages
        /\ UNCHANGED <<messages_arg, messages_token_limit, not_messages>>

NextMessages == PretruncateEnter \/ PretruncateLoop

\* The call runs on while it has a step to take.
SpecMessages == InitMessages /\ [][NextMessages]_vars /\ WF_vars(NextMessages)

(***************************************************************************)
(* TemplateRegistry.get_template (template_registry.py lines 42-80) called *)
(* from one thread, the cache key being the string _build_cache_key makes  *)
(* (lines 90-96).  A compiled template is known by the package, directory  *)
(* and name _load_template was given (lines 98-125).                       *)
(***************************************************************************)
KeyPackages == {None, Some(<<"a">>)}

KeyDirs == {<<"a">>, <<"a", "/">>, <<"a", "/", "a">>, <<"a", ":", "a">>}

KeyNames == {<<"a">>, <<"a", "/", "a">>}

\* Lines 90-96; `if package_name:` is Python truthiness.
BuildCacheKey(template_name, template_dir, package_name) ==
    LET key == template_dir \o <<"/">> \o template_name
    IN  IF Truthy(package_name)
        THEN Val(package_name) \o <<":">> \o key
        ELSE key

\* Lines 98-125: the template of that name under that directory (of that
\* package, if one is named).
LoadTemplate(template_name, template_dir, package_name) ==
    [package_name |-> package_name, template_dir |-> template_dir,
     template_name |-> template_name]

\* str.endswith
EndsWith(string, c) == Len(string) > 0 /\ string[Len(string)] = c

KeyInCache(cache, key) == \E e \in cache : e.key = key

KeyLookup(cache, key) == (CHOOSE e \in cache : e.key = key).template

\* self._cache[key] = template
KeyStore(cache, key, template) ==
    {e \in cache : e.key # key} \cup {[key |-> key, template |-> template]}

InitKeys ==
    /\ NoPromptStart
    /\ MessagesStart
    /\ KeysStart

not_keys == <<prompt_vars, ctor_vars, tokenizer_vars, registry_vars,
              escape_vars, messages_vars>>

\* Lines 62-80.
GetTemplate(template_name, template_dir, package_name, use_cache) ==
    LET args == [package_name |-> package_name, template_dir |-> template_dir,
                 template_name |-> template_name, use_cache |-> use_cache]
        cache_key == BuildCacheKey(template_name, template_dir, package_name)
        load_from_disk == ~use_cache \/ ~KeyInCache(keys_cache, cache_key)
        cache == IF load_from_disk
                 THEN KeyStore(keys_cache, cache_key,
                               LoadTemplate(template_name, template_dir, package_name))
                 ELSE keys_cache
    IN  /\ Len(keys_calls) < MaxKeyCalls
        /\ IF EndsWith(template_dir, "/")
           THEN /\ keys_calls' = Append(keys_calls,
                       [args |-> args, result |-> "ValueError", key |-> None,
                        template |-> None])
                /\ UNCHANGED keys_cache
           ELSE /\ keys_cache' = cache
                /\ keys_calls' = Append(keys_calls,
                       [args |-> args, result |-> "ok", key |-> Some(cache_key),
                        template |-> Some(KeyLookup(cache, cache_key))])
        /\ UNCHANGED not_keys

\* TTLCache (line 38): the time to live of an entry runs out.
KeyExpire ==
    /\ \E e \in keys_cache : keys_cache' = keys_cache \ {e}
    /\ UNCHANGED <<keys_calls, not_keys>>

NextKeys ==
    \/ \E template_name \in KeyNames, template_dir \in KeyDirs,
          package_name \in KeyPackages, use_cache \in BOOLEAN :
            GetTemplate(template_name, template_dir, package_name, use_cache)
    \/ KeyExpire

SpecKeys == InitKeys /\ [][NextKeys]_vars

(***************************************************************************)
(* What the claims speak of.                                               *)
(***************************************************************************)
\* The value the property Prompt.tokens returns on a tokenized document.
TokensValue(ps, cache) == IF Truthy(cache) THEN Val(cache) ELSE ConcatTokens(ps)

\* The tokens in the parts of positive priority.
RECURSIVE RemovableTokens(_)
RemovableTokens(ps) ==
    IF ps = <<>> THEN 0
    ELSE (IF Head(ps).truncation_priority > 0 THEN NumTokens(Head(ps)) ELSE 0)
         + RemovableTokens(Tail(ps))

\* truncate(tl, ts) called again in the state this step leaves.
TruncateAgain(tl, ts) ==
    TruncateOutcome(parts', parts_bak', total_tokens', cached_tokens',
                    EffectiveLimit(tl, token_limit'), EffectiveStep(ts, truncation_step'))

\* truncate(tl, ts) called in the state this step starts from.
TruncateNow(tl, ts) ==
    TruncateOutcome(parts, parts_bak, total_tokens, cached_tokens,
                    EffectiveLimit(tl, token_limit), EffectiveStep(ts, truncation_step))

ValidArgs(tl, ts) ==
    /\ EffectiveLimit(tl, token_limit) >= 1
    /\ EffectiveStep(ts, truncation_step) >= 1

\* C1: truncate(L, S) with L >= 1, S >= 1 on a fully tokenized document,
\* called a second time right after the first, ends the same way and leaves
\* the same live parts and the same len(tokens) as the first call did.
C1_IdempotentTruncate ==
    [][\A tl \in TokenLimits, ts \in TruncationSteps :
        (AllTokenized(parts) /\ ValidArgs(tl, ts) /\ Truncate(tl, ts)) =>
            LET again == TruncateAgain(tl, ts)
            IN  /\ again.result = last'.result
                /\ again.parts = parts'
                /\ Len(TokensValue(again.parts, again.cached_tokens))
                     = Len(TokensValue(parts', cached_tokens'))]_vars

\* C2: an earlier truncate call, whatever its arguments, does not change what
\* a later successful truncate(L, S) leaves: the later call leaves the live
\* parts it would have left had it been made in place of the earlier one.
\* By induction over the calls this is the claim for every sequence of
\* earlier truncate calls.
C2_NonCumulativeTruncate ==
    [][\A tl \in TokenLimits, ts \in TruncationSteps :
        (AllTokenized(parts) /\ Truncate(tl, ts)) =>
            \A tl2 \in TokenLimits, ts2 \in TruncationSteps :
                (ValidArgs(tl2, ts2) /\ TruncateAgain(tl2, ts2).result = "ok") =>
                    /\ TruncateNow(tl2, ts2).result = "ok"
                    /\ TruncateAgain(tl2, ts2).parts = TruncateNow(tl2, ts2).parts]_vars

\* C3: whenever truncate with an effective token_limit L >= 1 returns without
\* raising, len(prompt.tokens), the number of tokens over the live parts, is
\* at most L.
C3_TruncatePostCondition ==
    [][\A tl \in TokenLimits, ts \in TruncationSteps :
        (last'.reason = "truncated" /\ ValidArgs(tl, ts) /\ Truncate(tl, ts)) =>
            /\ Len(TokensValue(parts', cached_tokens')) <= EffectiveLimit(tl, token_limit)
            /\ SumTokens(parts') <= EffectiveLimit(tl, token_limit)]_vars

\* A successful truncate has removed a part of a backed-up document.
C3_Witness ==
    /\ last.op = "truncate" /\ last.reason = "truncated"
    /\ Truthy(parts_bak) /\ Len(parts) < Len(Val(parts_bak))

\* C4: no truncate call, however it ends, removes a part whose
\* truncation_priority is <= 0: every such part of the pretruncation sequence
\* is in the live sequence after the call.
C4_PriorityProtection ==
    [][(last'.op = "truncate" /\ \E tl \in TokenLimits, ts \in TruncationSteps : Truncate(tl, ts)) =>
            LET pre == PretruncationParts(parts, parts_bak)
            IN  \A i \in 1..Len(pre) :
                    pre[i].truncation_priority <= 0 =>
                        \E j \in 1..Len(parts') :
                            /\ parts'[j].name = pre[i].name
                            /\ parts'[j].truncation_priority = pre[i].truncation_priority]_vars

\* A truncate has removed a part and kept a protected one of negative priority.
C4_Witness ==
    /\ last.op = "truncate" /\ last.reason \in {"truncated", "token limit not met"}
    /\ Truthy(parts_bak) /\ Len(parts) < Len(Val(parts_bak))
    /\ \E j \in 1..Len(parts) : parts[j].truncation_priority < 0

\* C5: when truncate raises TruncationError, the live parts and len(tokens)
\* after the call are those from immediately before the call, whatever state
\* the call starts from.
C5_RevertToStateBeforeCall ==
    [][\A tl \in TokenLimits, ts \in TruncationSteps :
        (last'.result = "TruncationError" /\ Truncate(tl, ts)) =>
            /\ parts' = parts
            /\ SumTokens(parts') = SumTokens(parts)]_vars

\* C6: whenever truncate raises TruncationError, the live parts are then
\* equal, part by part, to the pretruncation sequence: no part the failed
\* attempt removed stays removed.
C6_RollbackTarget ==
    [][\A tl \in TokenLimits, ts \in TruncationSteps :
        (last'.result = "TruncationError" /\ Truncate(tl, ts)) =>
            parts' = PretruncationParts(parts, parts_bak)]_vars

\* C7: a successful truncate(L, S) on a tokenized document with pretruncation
\* total T and R tokens in parts of positive priority removes nothing when
\* T <= L and otherwise at least min(ceil((T - L) / S) * S, R) tokens.
C7_StepRounding ==
    [][\A tl \in TokenLimits, ts \in TruncationSteps :
        (last'.reason = "truncated" /\ ValidArgs(tl, ts) /\ Truncate(tl, ts)) =>
            LET pre     == PretruncationParts(parts, parts_bak)
                T       == SumTokens(pre)
                R       == RemovableTokens(pre)
                L       == EffectiveLimit(tl, token_limit)
                S       == EffectiveStep(ts, truncation_step)
                need    == CeilDiv(T - L, S) * S
                removed == T - SumTokens(parts')
            IN  IF T <= L THEN removed = 0 ELSE removed >= Min(need, R)]_vars

\* C8: truncate with an effective token_limit of -1, passed or inherited from
\* the constructor, returns normally and leaves the live parts, the backup,
\* the running total and both token caches as they were, whatever the step
\* and whether or not the parts are tokenized.
C8_NoLimitIsNoOp ==
    [][\A tl \in TokenLimits, ts \in TruncationSteps :
        (last'.op = "truncate" /\ EffectiveLimit(tl, token_limit) = -1 /\ Truncate(tl, ts)) =>
            /\ last'.result = "ok"
            /\ UNCHANGED <<parts, parts_bak, total_tokens, cached_tokens,
                           cached_pretruncation_tokens>>]_vars

\* truncate has returned through the -1 short cut on an untokenized document.
C8_Witness ==
    /\ last.op = "truncate" /\ last.reason = "no truncation necessary"
    /\ ~AllTokenized(parts)

\* C9: truncate with token_limit <= 0 other than -1, or with
\* truncation_step <= 0 and token_limit # -1, raises ValueError and leaves
\* the live parts, the backup and the running total as they were.
C9_InvalidArguments ==
    [][\A tl \in TokenLimits, ts \in TruncationSteps :
        LET L == EffectiveLimit(tl, token_limit)
            S == EffectiveStep(ts, truncation_step)
        IN  (last'.op = "truncate" /\ L # -1 /\ (L <= 0 \/ S <= 0) /\ Truncate(tl, ts)) =>
                /\ last'.result = "ValueError"
                /\ last'.reason \in {"invalid token limit", "invalid truncation step"}
                /\ UNCHANGED <<parts, parts_bak, total_tokens>>]_vars

\* truncate has rejected its arguments on a tokenized, backed-up document.
C9_Witness ==
    /\ last.op = "truncate"
    /\ last.reason \in {"invalid token limit", "invalid truncation step"}
    /\ Truthy(parts_bak)

\* C10: truncate with token_limit >= 1 and truncation_step >= 1 on a document
\* with a live part that has no tokens raises the not-tokenized ValueError
\* and changes neither the parts, the backup, the running total nor a cache.
C10_NotTokenized ==
    [][\A tl \in TokenLimits, ts \in TruncationSteps :
        (last'.op = "truncate" /\ ~AllTokenized(parts) /\ ValidArgs(tl, ts) /\ Truncate(tl, ts)) =>
            /\ last'.result = "ValueError"
            /\ last'.reason = "not tokenized"
            /\ UNCHANGED <<parts, parts_bak, total_tokens, cached_tokens,
                           cached_pretruncation_tokens>>]_vars

\* truncate has refused a document that is tokenized in part only.
C10_Witness ==
    /\ last.op = "truncate" /\ last.reason = "not tokenized"
    /\ \E i \in 1..Len(parts) : ~IsNone(parts[i].tokens)

\* C11: lreplace_at(old, new, index) on a part whose content starts with old
\* sets the content to new followed by the original content without its
\* first len(old) characters; nothing more is stripped from the remainder.
C11_LiteralPrefixReplaced ==
    [][\A r \in EditReplacements, index \in Indices :
        (last'.reason = "replaced" /\ LreplaceAt(r.old, r.new, index)) =>
            LET i == ListIndex(Len(parts), index)
                c == parts[i].content
            IN  parts'[i].content = r.new \o SubSeq(c, Len(r.old) + 1, Len(c))]_vars

\* C12: for every part whose content starts with old, lreplace_at(old, new, i)
\* followed by lreplace_at(new, old, i) leaves the part with the content it
\* had before the two calls.
C12_LreplaceRoundTrip ==
    [][\A r \in EditReplacements, index \in Indices :
        (last'.reason = "replaced" /\ LreplaceAt(r.old, r.new, index)) =>
            LET i      == ListIndex(Len(parts), index)
                edited == parts'[i].content
            IN  /\ StartsWith(edited, r.new)
                /\ LReplaced(edited, r.new, r.old) = parts[i].content]_vars

\* C13: lreplace_at with an index outside 0 .. len(parts) - 1, too large or
\* negative, raises IndexError and changes no part's content or tokens and
\* not the running total.
C13_IndexOutOfRange ==
    [][\A r \in Replacements, index \in Indices :
        (/\ last'.op = "lreplace_at"
         /\ (index < 0 \/ index >= Len(parts))
         /\ LreplaceAt(r.old, r.new, index)) =>
            /\ last'.result = "IndexError"
            /\ UNCHANGED <<parts, total_tokens>>]_vars

\* C14: lreplace_at(old, new, i) leaves every part other than the one at
\* index i as it was, keeps the number and the order of the parts, and
\* changes nothing at all (parts, backup, running total, cache) when there is
\* no part at i or its content does not start with old.
C14_LreplaceFrame ==
    [][\A r \in Replacements, index \in Indices :
        (last'.op = "lreplace_at" /\ LreplaceAt(r.old, r.new, index)) =>
            LET i == ListIndex(Len(parts), index)
            IN  /\ Len(parts') = Len(parts)
                /\ \A j \in 1..Len(parts) :
                     /\ j # i => parts'[j] = parts[j]
                     /\ parts'[j].name = parts[j].name
                     /\ parts'[j].role = parts[j].role
                     /\ parts'[j].truncation_priority = parts[j].truncation_priority
                /\ (\/ i = 0
                    \/ Len(parts[i].content) < Len(r.old)
                    \/ SubSeq(parts[i].content, 1, Len(r.old)) # r.old) =>
                       UNCHANGED <<parts, parts_bak, total_tokens, cached_tokens>>]_vars

\* An edit has changed one part of a document of two, whose other part
\* carries other tokens.
C14_Witness ==
    /\ last.op = "lreplace_at" /\ last.reason = "replaced"
    /\ Len(parts) = 2
    /\ parts[1].tokens # parts[2].tokens

\* C15 as claimed: constructing a Prompt whose template_data has the key
\* token_limit or escape_special_characters raises ValueError before the
\* template is rendered, and leaves no Prompt and no parts.
C15_ReservedKeysAnyTemplate ==
    [][\A loadable \in BOOLEAN, data \in TemplateData :
        (/\ data \cap {"token_limit", "escape_special_characters"} # {}
         /\ \E doc \in Documents, ctor \in CtorArgs : Construct(loadable, data, doc, ctor)) =>
            /\ last'.result = "ValueError"
            /\ rendered_template' = None
            /\ parts' = <<>>]_vars

\* C15 as amended: constructing a Prompt whose template_data has the key
\* token_limit or escape_special_characters leaves no Prompt and no parts and
\* renders nothing; when the template itself can be loaded, the error is the
\* ValueError of the reserved key.
C15_ReservedKeys ==
    [][\A loadable \in BOOLEAN, data \in TemplateData :
        (/\ data \cap {"token_limit", "escape_special_characters"} # {}
         /\ \E doc \in Documents, ctor \in CtorArgs : Construct(loadable, data, doc, ctor)) =>
            /\ last'.result # "ok"
            /\ loadable => (last'.result = "ValueError" /\ last'.reason = "reserved key")
            /\ rendered_template' = None
            /\ parts' = <<>>]_vars

\* A construction has been refused for a reserved key.
C15_Witness ==
    /\ last.op = "__init__" /\ last.reason = "reserved key"
    /\ rendered_template = None

\* C16: under any interleaving of concurrent calls of get_default_tokenizer
\* from several threads, heather() has run at most once and every call that
\* returned has returned the one instance _TOKENIZER holds.
C16_TokenizerSingleton ==
    /\ heather_calls <= 1
    /\ \A t \in Threads :
         tokenizer_ret[t].result = "ok" =>
             /\ ~IsNone(tokenizer_ret[t].tokenizer)
             /\ tokenizer_ret[t].tokenizer = TOKENIZER
             /\ \A u \in Threads :
                  tokenizer_ret[u].result = "ok" =>
                      tokenizer_ret[u].tokenizer = tokenizer_ret[t].tokenizer

\* Every thread has called and got the instance, and heather() has run.
C16_Witness ==
    /\ heather_calls = 1
    /\ \A t \in Threads :
         /\ tokenizer_pc[t] = "done"
         /\ tokenizer_ret[t] = [result |-> "ok", tokenizer |-> Some(1)]

\* C17: when several threads look templates up in the shared registry, no
\* two of them are inside a change of the cache at once, and every lookup
\* that has ended has returned the compiled template of the key it asked
\* for: its read-back never misses.
C17_CacheSerialized ==
    /\ \A t \in RegistryThreads, u \in RegistryThreads :
         (registry_pc[t] = "store" /\ registry_pc[u] = "store") => t = u
    /\ \A t \in RegistryThreads :
         registry_pc[t] = "done" =>
             /\ registry_ret[t].result = "ok"
             /\ Val(registry_ret[t].template).key = registry_args[t].key

\* C18: a lookup with use_cache=False compiles the template and returns the
\* template it compiled; a lookup with use_cache=True that finds a live entry
\* returns an entry of its key without compiling; one that finds none
\* compiles, inserts and returns the template it compiled.
C18_CacheBypass ==
    \A t \in RegistryThreads :
        registry_pc[t] = "done" =>
            LET a == registry_args[t]
                l == registry_local[t]
                r == registry_ret[t]
            IN  /\ (~a.use_cache \/ l.load_from_disk) =>
                       /\ ~IsNone(l.template)
                       /\ r = [result |-> "ok", template |-> l.template]
                /\ (a.use_cache /\ ~l.load_from_disk) =>
                       /\ IsNone(l.template)
                       /\ r.result = "ok"
                       /\ Val(r.template).key = a.key

\* C19: for every string that contains none of the three raw sequences
\* (newline, carriage return, single quote), unescaping the escaped string
\* gives the string back, and escaping the unescaped string gives the
\* string back.
C19_EscapeRoundTrip ==
    (/\ ~Contains(escape_string, newline)
     /\ ~Contains(escape_string, carriage_return)
     /\ ~Contains(escape_string, single_quote)
     /\ escape_calls \in {<<"escape", "unescape">>, <<"unescape", "escape">>})
        => escape_value = escape_string

\* C20 as claimed: on a document in which a live part has no tokens, the
\* properties tokens, pretruncation_tokens and openai_messages each fail with
\* the not-tokenized error instead of returning a value.
C20_AccessorsNotTokenized ==
    (/\ last.op \in {"tokens", "pretruncation_tokens", "openai_messages"}
     /\ ~AllTokenized(parts))
        => /\ last.result = "TypeError"
           /\ last.reason = "not tokenized"

\* C20 as the code has it: on such a document tokens and pretruncation_tokens
\* fail with the not-tokenized TypeError, while openai_messages returns the
\* role and content of every part, tokenized or not.
C20_TokenAccessorsNotTokenized ==
    /\ (/\ last.op \in {"tokens", "pretruncation_tokens"}
        /\ \E i \in 1..Len(parts) : IsNone(parts[i].tokens))
           => /\ last.result = "TypeError"
              /\ last.reason = "not tokenized"
    /\ last.op = "openai_messages"
           => /\ last.result = "ok"
              /\ Len(OpenaiMessages(parts)) = Len(parts)

\* pretruncation_tokens has refused a document that is tokenized in part only.
C20_Witness ==
    /\ last.op = "pretruncation_tokens" /\ last.result = "TypeError"
    /\ \E i \in 1..Len(parts) : ~IsNone(parts[i].tokens)
    /\ \E i \in 1..Len(parts) : IsNone(parts[i].tokens)

\* C21: on a document whose every part carries tokens, with pretruncation
\* total T and R tokens in the parts of positive priority, truncate(L, S) with
\* L >= 1 and S >= 1 raises TruncationError exactly when T - R > L.
C21_ExactFailure ==
    [][\A tl \in TokenLimits, ts \in TruncationSteps :
        (last'.op = "truncate" /\ AllTokenized(parts) /\ ValidArgs(tl, ts)
           /\ Truncate(tl, ts)) =>
            LET pre == PretruncationParts(parts, parts_bak)
                T   == SumTokens(pre)
                R   == RemovableTokens(pre)
                L   == EffectiveLimit(tl, token_limit)
            IN  (last'.result = "TruncationError") <=> (T - R > L)]_vars

\* C22: in every truncate call that gets as far as computing the need, the
\* surplus the need is computed from is max(0, n - token_limit), n being the
\* number of tokens in the parts restored from the pretruncation backup.
C22_RestoredTotal ==
    [][\A tl \in TokenLimits, ts \in TruncationSteps :
        (last'.reason \in {"truncated", "token limit not met"} /\ Truncate(tl, ts)) =>
            LET L        == EffectiveLimit(tl, token_limit)
                restored == ResetParts(parts, parts_bak)
            IN  Max(0, total_tokens - L) = Max(0, SumTokens(restored) - L)]_vars

\* C23: after every operation the running total _total_tokens is the number
\* of tokens in the live parts that carry tokens.
C23_RunningTotal == total_tokens = SumTokens(parts)

\* C24: whenever every live part carries tokens there is a pretruncation
\* backup.
C24_BackupAvailable ==
    (parts # <<>> /\ AllTokenized(parts)) => Truthy(parts_bak)

\* C25: once the pretruncation backup exists no tokenize, lreplace_at or
\* truncate call changes it, no live part is the same object as a part of it,
\* and pretruncation_parts stays the document as it was when the backup was
\* taken.
C25_BackupImmutable ==
    [][/\ ~IsNone(parts_bak') => ~bak_shared'
       /\ ~IsNone(parts_bak) =>
            /\ parts_bak' = parts_bak
            /\ PretruncationParts(parts', parts_bak') = Val(parts_bak)]_vars

\* lreplace_at has edited a live part of a backed-up document.
C25_Witness ==
    /\ last.op = "lreplace_at" /\ last.reason = "replaced"
    /\ Truthy(parts_bak)
    /\ \E i \in 1..Len(parts) : \E j \in 1..Len(Val(parts_bak)) :
         /\ parts[i].name = Val(parts_bak)[j].name
         /\ parts[i].content # Val(parts_bak)[j].content

\* C26: no tokenize and no truncate call changes the content of a part: every
\* part that is live after such a call and was live before it has the content
\* it had before the call.
C26_ContentFrame ==
    [][last'.op \in {"tokenize", "truncate"} =>
         \A j \in 1..Len(parts') : \A i \in 1..Len(parts) :
             parts[i].name = parts'[j].name => parts[i].content = parts'[j].content]_vars

\* The part of the sequence pre with the given name has been removed: it is
\* not among the live parts the step leaves.
Removed(pre, i) == \A j \in 1..Len(parts') : parts'[j].name # pre[i].name

\* C27: after any truncate call, if a part of positive priority p of the
\* pretruncation sequence has been removed, every part of that sequence with
\* a priority greater than p has been removed as well.
C27_PriorityOrder ==
    [][last'.op = "truncate" =>
         LET pre == PretruncationParts(parts, parts_bak)
         IN  \A i \in 1..Len(pre), j \in 1..Len(pre) :
                 (/\ pre[i].truncation_priority > 0
                  /\ Removed(pre, i)
                  /\ pre[j].truncation_priority > pre[i].truncation_priority)
                     => Removed(pre, j)]_vars

\* A truncate has removed every part of priority 2 and a part of priority 1,
\* and has left another part of priority 1.
C27_Witness ==
    /\ last.op = "truncate" /\ last.reason = "truncated"
    /\ Truthy(parts_bak)
    /\ \E i \in 1..Len(Val(parts_bak)) : Val(parts_bak)[i].truncation_priority = 2
    /\ \E i \in 1..Len(Val(parts_bak)) :
         /\ Val(parts_bak)[i].truncation_priority = 1
         /\ \A j \in 1..Len(parts) : parts[j].name # Val(parts_bak)[i].name
    /\ \E j \in 1..Len(parts) : parts[j].truncation_priority = 1

\* The parts of a block that the step has removed.
RemovedOf(pre, block) == {i \in block.left .. block.right : Removed(pre, i)}

\* The blocks, by their place in the order of removal, of which the step has
\* removed a part, and those of which it has removed a part and left a part.
Touched(pre, blocks) == {k \in 1..Len(blocks) : RemovedOf(pre, blocks[k]) # {}}

Partial(pre, blocks) ==
    {k \in Touched(pre, blocks) :
        RemovedOf(pre, blocks[k]) # blocks[k].left .. blocks[k].right}

\* The last part removed: the rightmost removed part of the last block touched.
LastRemoved(pre, blocks) ==
    LET k == CHOOSE m \in Touched(pre, blocks) : \A n \in Touched(pre, blocks) : n <= m
    IN  CHOOSE i \in RemovedOf(pre, blocks[k]) : \A j \in RemovedOf(pre, blocks[k]) : j <= i

\* What C28 says of the shape of a removal: whole parts only, at most one
\* block left partially removed, that block the last one touched, and the
\* parts removed from it a left-to-right prefix of it.
RemovalShape(pre, blocks) ==
    LET touched == Touched(pre, blocks)
        partial == Partial(pre, blocks)
    IN  /\ \A j \in 1..Len(parts') : \E i \in 1..Len(pre) : parts'[j] = pre[i]
        /\ Cardinality(partial) <= 1
        /\ \A k \in partial : \A m \in touched : m <= k
        /\ \A k \in partial : \A i \in RemovedOf(pre, blocks[k]) :
               blocks[k].left .. i \subseteq RemovedOf(pre, blocks[k])

\* C28 as claimed: the shape above, and the tokens removed exceed the need by
\* less than the tokens of the last part removed when a block is left
\* partially removed, and do not exceed the need when every block touched is
\* removed whole.
C28_BoundedOverTruncation ==
    [][last'.op = "truncate" =>
        LET pre     == ResetParts(parts, parts_bak)
            blocks  == BuildTruncationBlocks(pre)
            removed == SumTokens(pre) - SumTokens(parts')
            partial == Partial(pre, blocks) # {}
            excess  == IF removed = 0 THEN 0
                       ELSE removed - NumTokens(pre[LastRemoved(pre, blocks)])
        IN  /\ RemovalShape(pre, blocks)
            /\ \A l \in BlockLimits, st \in BlockSteps :
                 LET need == CalculateNumTokensToTruncate(total_tokens, l, st)
                 IN  \/ IF partial THEN excess < need ELSE removed <= need
                     \/ ~Truncate(Some(l), Some(st))]_vars

\* C28 as the code has it: the shape above, and whenever the tokens removed
\* exceed the need they exceed it by less than the tokens of the last part
\* removed, whether or not a part of the last block touched is left.
C28_OverTruncationBound ==
    [][last'.op = "truncate" =>
        LET pre     == ResetParts(parts, parts_bak)
            blocks  == BuildTruncationBlocks(pre)
            removed == SumTokens(pre) - SumTokens(parts')
            excess  == IF removed = 0 THEN 0
                       ELSE removed - NumTokens(pre[LastRemoved(pre, blocks)])
        IN  /\ RemovalShape(pre, blocks)
            /\ \A l \in BlockLimits, st \in BlockSteps :
                 LET need == CalculateNumTokensToTruncate(total_tokens, l, st)
                 IN  \/ removed <= need
                     \/ excess < need
                     \/ ~Truncate(Some(l), Some(st))]_vars

\* A truncate has left a block partially removed: the first part of a block
\* of two is gone and the second is live.
C28_Witness ==
    /\ last.op = "truncate" /\ last.reason = "truncated"
    /\ Truthy(parts_bak)
    /\ \E i \in 1..(Len(Val(parts_bak)) - 1) :
         /\ Val(parts_bak)[i].truncation_priority = Val(parts_bak)[i + 1].truncation_priority
         /\ \A j \in 1..Len(parts) : parts[j].name # Val(parts_bak)[i].name
         /\ \E j \in 1..Len(parts) : parts[j].name = Val(parts_bak)[i + 1].name

\* C29: of two blocks of the same positive priority, a part of the later one
\* (in the part sequence) is removed only if every part of the earlier one is
\* removed.
C29_TieBreaking ==
    [][last'.op = "truncate" =>
        LET pre    == PretruncationParts(parts, parts_bak)
            blocks == UnfilteredBlocks(pre)
        IN  \A a \in 1..Len(blocks), b \in 1..Len(blocks) :
                (/\ a < b
                 /\ blocks[a].truncation_priority > 0
                 /\ blocks[a].truncation_priority = blocks[b].truncation_priority
                 /\ RemovedOf(pre, blocks[b]) # {})
                    => RemovedOf(pre, blocks[a]) = blocks[a].left .. blocks[a].right]_vars

\* A truncate has removed the first of two blocks of priority 1 that a
\* protected part separates, and has left the second.
C29_Witness ==
    /\ last.op = "truncate" /\ last.reason = "truncated"
    /\ Truthy(parts_bak)
    /\ Len(Val(parts_bak)) >= 3
    /\ Val(parts_bak)[1].truncation_priority = 1
    /\ Val(parts_bak)[2].truncation_priority = 0
    /\ Val(parts_bak)[3].truncation_priority = 1
    /\ \A j \in 1..Len(parts) : parts[j].name # 1
    /\ \E j \in 1..Len(parts) : parts[j].name = 3

\* The place in the sequence pre of the part with the name of p; 0 when there
\* is none.
PlaceIn(pre, p) ==
    IF \E i \in 1..Len(pre) : pre[i].name = p.name
    THEN CHOOSE i \in 1..Len(pre) : pre[i].name = p.name
    ELSE 0

\* C30: after every truncate call the live parts are a subsequence of the
\* pretruncation sequence (pretruncation_parts): each live part is there with
\* its name, role, tokens and priority, and the live parts are in the order
\* they have there, none twice.
C30_OrderPreserved ==
    [][last'.op = "truncate" =>
        LET pre == PretruncationParts(parts', parts_bak')
        IN  /\ \A j \in 1..Len(parts') :
                 LET i == PlaceIn(pre, parts'[j])
                 IN  /\ i # 0
                     /\ pre[i].role = parts'[j].role
                     /\ pre[i].tokens = parts'[j].tokens
                     /\ pre[i].truncation_priority = parts'[j].truncation_priority
            /\ \A j \in 1..Len(parts'), k \in 1..Len(parts') :
                 j < k => PlaceIn(pre, parts'[j]) < PlaceIn(pre, parts'[k])]_vars

C32_TokensCoherent ==
    /\ (last.op = "tokens" /\ AllTokenized(parts)) =>
            /\ last.result = "ok"
            /\ cached_tokens = Some(ConcatTokens(parts))
    /\ Truthy(cached_tokens) =>
            /\ AllTokenized(parts)
            /\ Val(cached_tokens) = ConcatTokens(parts)

\* prompt.tokens was read, the live parts have changed since the backup was
\* made, and the read gave the tokens of the live parts.
C32_Witness ==
    /\ last.op = "tokens" /\ last.result = "ok"
    /\ Truthy(parts_bak) /\ Val(parts_bak) # parts
    /\ Truthy(cached_tokens)
    /\ Val(cached_tokens) # ConcatTokens(Val(parts_bak))

\* C33: under tokenize (forced or not), lreplace_at and truncate calls
\* interleaved with reads, what prompt.pretruncation_tokens gives is the
\* concatenation, in order, of the tokens of prompt.pretruncation_parts as
\* they are at the time of the read.
C33_PretruncationTokensCoherent ==
    (last.op = "pretruncation_tokens" /\ last.result = "ok") =>
        cached_pretruncation_tokens
            = Some(ConcatTokens(PretruncationParts(parts, parts_bak)))

IsSuffix(short, long) ==
    /\ Len(short) <= Len(long)
    /\ short = SubSeq(long, Len(long) - Len(short) + 1, Len(long))

\* C34: pretruncate_messages comes to its return for every message list and
\* every token_limit; what it returns is the list as given when token_limit
\* is negative, and otherwise a suffix of it of at most
\* 2 * (token_limit // 10) messages.
C34_PretruncateTerminates ==
    <>(/\ messages_pc = "return"
       /\ IF messages_token_limit < 0
          THEN messages = messages_arg
          ELSE /\ IsSuffix(messages, messages_arg)
               /\ Len(messages) <= 2 * (messages_token_limit \div 10))

\* The package, directory and name a lookup was made for.
TripleOf(args) ==
    [package_name |-> args.package_name, template_dir |-> args.template_dir,
     template_name |-> args.template_name]

\* C35: lookups for distinct (package_name, template_dir, template_name)
\* triples are made under distinct cache keys, and a get_template lookup
\* with use_cache=True gives the template of its own package, directory and
\* name.
C35_CacheKeyInjective ==
    \A i, j \in 1..Len(keys_calls) :
        LET this == keys_calls[i]
            that == keys_calls[j]
        IN  (this.result = "ok" /\ that.result = "ok") =>
                /\ TripleOf(this.args) # TripleOf(that.args) => this.key # that.key
                /\ this.args.use_cache => this.template = Some(TripleOf(this.args))

\* The blocks partition the parts ps: ranges in order, disjoint, contiguous
\* and covering every index; each a maximal run of one priority; each with
\* the token count of its parts.  (Indices count from 1 here, from 0 in the
\* code.)
BlockPartition(ps, blocks) ==
    LET n == Len(blocks)
    IN  IF ps = <<>> THEN blocks = <<>>
        ELSE /\ n >= 1
             /\ blocks[1].left = 1
             /\ blocks[n].right = Len(ps)
             /\ \A k \in 1..n :
                  /\ blocks[k].left <= blocks[k].right
                  /\ \A i \in blocks[k].left..blocks[k].right :
                       ps[i].truncation_priority = blocks[k].truncation_priority
                  /\ blocks[k].total_tokens
                       = SumTokens(SubSeq(ps, blocks[k].left, blocks[k].right))
             /\ \A k \in 1..(n - 1) :
                  /\ blocks[k + 1].left = blocks[k].right + 1
                  /\ blocks[k + 1].truncation_priority # blocks[k].truncation_priority

\* C36: the blocks _build_truncation_blocks computes before filtering
\* partition the part sequence, of the live parts and of the parts truncate
\* restores alike: disjoint contiguous ranges covering every part, each a
\* maximal run of equal truncation_priority, each with the sum of the token
\* counts of its parts; no parts, no blocks.
C36_BlockPartition ==
    /\ BlockPartition(parts, UnfilteredBlocks(parts))
    /\ BlockPartition(ResetParts(parts, parts_bak),
                      UnfilteredBlocks(ResetParts(parts, parts_bak)))

\* truncate has run on a document of several blocks, one of them a run of
\* two parts or more, and has taken parts out of it.
C36_Witness ==
    /\ last.op = "truncate" /\ last.reason = "truncated"
    /\ Truthy(parts_bak)
    /\ Len(parts) < Len(Val(parts_bak))
    /\ LET blocks == UnfilteredBlocks(Val(parts_bak))
       IN  /\ Len(blocks) >= 2
           /\ \E k \in 1..Len(blocks) : blocks[k].right > blocks[k].left

====
